---- MODULE Spec2Model ----
(***************************************************************************)
(* Model of the document retrieval system: the module-level startup of     *)
(* main.py, the vector store held by DocumentProcessor, the RAGSystem      *)
(* singleton, and the request handlers with the generation ladder of       *)
(* RAGSystem.generate_travel_plan and RAGSystem.answer_question.           *)
(*                                                                         *)
(* Strings are modelled by what the code asks of them: their length,       *)
(* whether strip() leaves nothing, and whether the last character that     *)
(* strip() leaves is one of '.', '!', '?'.                                 *)
(***************************************************************************)
EXTENDS Integers, Sequences, FiniteSets, TLC

\* ---------------------------------------------------------------- bounds
MaxEntries == 2     \* entries an index holds at most in the model
MaxChunks == 2      \* chunks a stream delivers at most in the model
MaxDays == 9        \* largest days/duration value a request carries
MaxProcessors == 2  \* DocumentProcessor objects a caller can pass
MaxCallers == 2     \* threads that call get_instance at the same time
MaxTasks == 2       \* requests the event loop serves at the same time

\* ------------------------------------------------------ program constants
T_direct == 60          \* timeout of the batched call
T_retry == 30           \* timeout of the completion retry
T_grounded == 120       \* timeout of the grounded chain
MaxPlanDays == 7        \* clamp of days/duration
CompleteMinLen == 100   \* a complete response is longer than this
SubstantialMinLen == 50 \* a substantial response is longer than this
RetrieverK == 5         \* k of the Q&A retriever

None == -1              \* Python None for the vector store / persisted index
NoDeadline == 0         \* a call issued without wait_for

\* ---------------------------------------------------------------- strings
Str(len, blank, term) == [len |-> len, blank |-> blank, term |-> term]

EmptyStr == Str(0, TRUE, FALSE)

\* a += b
Concat(a, b) ==
    Str(a.len + b.len, a.blank /\ b.blank, IF b.blank THEN a.term ELSE b.term)

\* texts the generation model can return
TextLens == {0, SubstantialMinLen, SubstantialMinLen + 1,
             CompleteMinLen, CompleteMinLen + 1}

ModelTexts ==
    {t \in [len : TextLens, blank : BOOLEAN, term : BOOLEAN] :
        /\ (t.len = 0 => t.blank)
        /\ (t.blank => ~t.term)}

\* chunks a stream can deliver: "", " ", "abc", "."
StreamChunks == {Str(0, TRUE, FALSE), Str(1, TRUE, FALSE),
                 Str(3, FALSE, FALSE), Str(1, FALSE, TRUE)}

\* ---------------------------------------------------------- request inputs
NoPrefs == "<None>"
Preferences == {NoPrefs, "", "museums", "Nightlife", "craft beer",
                "nightlife and beer"}

Truthy(preferences) == preferences \notin {NoPrefs, ""}

\* 'nightlife' in preferences.lower()
HasNightlife(preferences) == preferences \in {"Nightlife", "nightlife and beer"}

\* 'beer' in preferences.lower()
HasBeer(preferences) == preferences \in {"craft beer", "nightlife and beer"}

Cities == {"Zagreb"}
Days == {1, MaxPlanDays, MaxDays}

Min(a, b) == IF a < b THEN a ELSE b

\* ------------------------------------------------------------------ state
VARIABLES
    phase,          \* "boot" until the module-level startup has run
    persisted,      \* entries of the index in faiss_db, None when not loadable
    vectorstore,    \* document_processor.vectorstore: None or its entry count
    rag_system,     \* main.rag_system: "None" or "instance"
    op,             \* the operation being served
    pc,             \* its position
    req,            \* its arguments (files / path and chunks for an ingestion)
    has_vectorstore,\* generate_travel_plan: local has_vectorstore
    prompt,         \* generate_travel_plan: local prompt
    full_response,  \* generate_travel_plan: local full_response
    response,       \* generate_travel_plan: accumulated stream text
    nchunks,        \* chunks the stream has delivered
    received,       \* history: those chunks, in arrival order
    calls,          \* external calls the operation has issued, in order
    result,         \* what the RAGSystem method returned or raised
    payload,        \* what the endpoint answered
    ingested,       \* history: an upload has added its chunks to the index
    docstore,       \* entries of the docstore file in faiss_db, None when absent
    singleton,      \* RAGSystem._instance and what get_instance has done
    callers,        \* threads inside RAGSystem.get_instance
    tasks,          \* requests in flight on the event loop
    boot            \* history: what the module-level startup went through

vars == <<phase, persisted, vectorstore, rag_system, op, pc, req,
          has_vectorstore, prompt, full_response, response, nchunks,
          received,
          calls, result, payload, ingested, docstore, singleton, callers,
          tasks,
          boot>>

indexVars == <<persisted, vectorstore, ingested, docstore>>
processVars == <<phase, rag_system, singleton, callers, tasks, boot>>
ladderVars == <<has_vectorstore, prompt, full_response, response, nchunks,
                received>>

NoReq == [city |-> "", days |-> 0, preferences |-> NoPrefs, duration |-> 0]
NoPrompt == [kind |-> "none", city |-> "", days |-> 0, preferences |-> NoPrefs,
             bar |-> FALSE, partial |-> EmptyStr]
NoResult == [kind |-> "none", tag |-> "none", text |-> EmptyStr,
             addenda |-> {}]
NoPayload == [status |-> "none", code |-> 0, text |-> NoResult, duration |-> 0,
              count |-> 0]


\* ------------------------------------------------------------- exceptions
Exc(type, msglen) == [type |-> type, msglen |-> msglen]

\* 'NoneType' object has no attribute 'lower'
AttributeError == Exc("AttributeError", 42)
\* string index out of range
IndexError == Exc("IndexError", 25)
\* asyncio.TimeoutError, raised by asyncio.wait_for at the deadline
TimeoutError == Exc("TimeoutError", 0)
\* what the Ollama client raises (connection refused, HTTP error, ...)
ModelErrors == {Exc("ConnectionError", 150)}

\* ------------------------------------------------------- results, payloads
Returned(tag, text, addenda) ==
    [kind |-> "return", tag |-> tag, text |-> text, addenda |-> addenda]

Raised(e) ==
    [kind |-> "raise", tag |-> e.type,
     text |-> Str(e.msglen, e.msglen = 0, FALSE), addenda |-> {}]

\* count: chunks_processed of an upload, the documents of a query
Payload(status, code, text, duration, count) ==
    [status |-> status, code |-> code, text |-> text, duration |-> duration,
     count |-> count]

\* http_exception_handler: an HTTPException becomes an error payload
HttpError(code) == Payload("error", code, NoResult, 0, 0)

\* ------------------------------------------------------------------ prompts
UngroundedPrompt(city, days, preferences) ==
    [kind |-> "ungrounded", city |-> city, days |-> days,
     preferences |-> IF Truthy(preferences) THEN preferences ELSE NoPrefs,
     bar |-> HasNightlife(preferences) \/ HasBeer(preferences),
     partial |-> EmptyStr]

CompletionPrompt(p, full) == [p EXCEPT !.kind = "completion", !.partial = full]

GroundedPrompt(city, days, preferences) ==
    [kind |-> "grounded", city |-> city, days |-> Min(days, MaxPlanDays),
     preferences |-> IF Truthy(preferences) THEN preferences
                     ELSE "No specific preferences",
     bar |-> FALSE, partial |-> EmptyStr]

QuestionPrompt(kind) ==
    [kind |-> kind, city |-> "", days |-> 0, preferences |-> NoPrefs,
     bar |-> FALSE, partial |-> EmptyStr]

Call(stage, p, deadline, outcome) ==
    [stage |-> stage, prompt |-> p, deadline |-> deadline, outcome |-> outcome]

\* the last call of the log gets its outcome
Settle(cs, outcome) == [cs EXCEPT ![Len(cs)].outcome = outcome]

\* ------------------------------------------- generate_travel_plan: handlers
\* mutant: the outer handlers let the exception go on to the caller
OuterExcept_Reraise(e) == Raised(e)

\* except asyncio.TimeoutError / except Exception around the whole body
OuterExcept(e) ==
    IF e.type = "TimeoutError"
    THEN Returned("timeout_msg", Str(120, FALSE, TRUE), {})
    ELSE Returned("error_msg", Str(69 + e.msglen, FALSE, FALSE), {})

\* except Exception around the ungrounded ladder: the canned itinerary
InnerExcept(preferences) ==
    LET night == Truthy(preferences) /\ HasNightlife(preferences)
        beer == Truthy(preferences) /\ HasBeer(preferences)
        addenda == (IF night THEN {"nightlife"} ELSE {})
                   \cup (IF beer THEN {"beer"} ELSE {})
        len == 2081 + (IF night THEN 113 ELSE 0) + (IF beer THEN 87 ELSE 0)
    IN  Returned("fallback", Str(len, FALSE, addenda # {}), addenda)

\* the fixed apology after a stream that accumulated nothing
Apology == Returned("apology", Str(120, FALSE, TRUE), {})

\* mutant: what has accumulated is returned as it is
AfterStream_ReturnBlank(acc) == Returned("stream", acc, {})

\* after the loop: if response.strip(): return response, else the apology
AfterStream(acc) ==
    IF ~acc.blank THEN Returned("stream", acc, {}) ELSE Apology

\* ------------------------------------------------ generate_itinerary: payload
\* mutant: the handler answers an error when the ladder ended with the apology
ItineraryPayload_ErrorOnFailed(travel_plan, duration) ==
    IF travel_plan.tag = "apology" THEN HttpError(500)
    ELSE Payload("success", 200, travel_plan, duration, 0)

ItineraryPayload(travel_plan, duration) ==
    Payload("success", 200, travel_plan, duration, 0)

\* except Exception of the handler: str(e)[:100] after a fixed text
ItineraryExceptPayload(e, duration) ==
    Payload("success", 200,
            Returned("handler_error",
                     Str(86 + Min(e.text.len, 100), FALSE, FALSE), {}),
            duration, 0)

\* what the serving endpoint answers once the RAGSystem method is through
Respond(o, res, request) ==
    IF o = "generate_itinerary"
    THEN IF res.kind = "raise"
         THEN ItineraryExceptPayload(res, request.duration)
         ELSE ItineraryPayload(res, request.days)
    ELSE NoPayload

\* --------------------------------------------- outcomes of the model calls
NoExc == Exc("none", 0)
Outcome(kind, text, exc) == [kind |-> kind, text |-> text, exc |-> exc]

\* agenerate under asyncio.wait_for: a result with a text, a falsy result,
\* a result whose generations are empty, the deadline, or an error of the
\* client
GenOutcomes ==
    {Outcome("text", t, NoExc) : t \in ModelTexts}
    \cup {Outcome("noresult", EmptyStr, NoExc),
          Outcome("nogenerations", EmptyStr, NoExc),
          Outcome("timeout", EmptyStr, TimeoutError)}
    \cup {Outcome("error", EmptyStr, e) : e \in ModelErrors}

\* the grounded chain under asyncio.wait_for
ChainOutcomes ==
    {Outcome("text", t, NoExc) :
        t \in {u \in ModelTexts : u.len \in {0, CompleteMinLen + 1}}}
    \cup {Outcome("timeout", EmptyStr, TimeoutError)}
    \cup {Outcome("error", EmptyStr, e) : e \in ModelErrors}

\* mutant: the retrieval block runs when there is an index
RetrievalEnabled_On == TRUE

\* `if has_vectorstore and False`: the retrieval block never runs
RetrievalEnabled == FALSE

\* the grounded chain is called only past a retrieval that returned documents
GroundedOutcomes(has) ==
    IF has /\ RetrievalEnabled THEN ChainOutcomes
    ELSE {Outcome("none", EmptyStr, NoExc)}

Step(p, res, cs) == [pc |-> p, result |-> res, calls |-> cs]

\* --------------------------------- generate_travel_plan up to its first await
EnterPlan(request, has, g) ==
    LET use_direct_llm == ~has
        docs_is_None == ~(has /\ RetrievalEnabled)
        p == UngroundedPrompt(request.city, request.days, request.preferences)
        gp == GroundedPrompt(request.city, request.days, request.preferences)
    IN  IF use_direct_llm \/ ~has \/ docs_is_None
        THEN IF request.preferences = NoPrefs
             THEN \* preferences.lower() on None, outside the inner try
                  Step("done", OuterExcept(AttributeError), <<>>)
             ELSE Step("batched", NoResult,
                       <<Call("batched", p, T_direct, "pending")>>)
        ELSE IF ~has \/ use_direct_llm \/ docs_is_None
             THEN Step("done",
                       Returned("unavailable", Str(82, FALSE, TRUE), {}), <<>>)
             ELSE Step("done",
                       IF g.kind = "text"
                       THEN Returned("grounded", g.text, {})
                       ELSE OuterExcept(g.exc),
                       <<Call("grounded", gp, T_grounded, g.kind)>>)

\* mutant: an incomplete text starts the streaming and the retry
AfterBatched_StreamAndRetry(o, p, preferences) ==
    IF o.kind \in {"timeout", "error"}
    THEN Step("done", InnerExcept(preferences), <<>>)
    ELSE IF o.kind \in {"noresult", "nogenerations"}
    THEN Step("stream", NoResult, <<Call("stream", p, NoDeadline, "pending")>>)
    ELSE IF o.text.len > CompleteMinLen /\ o.text.blank
    THEN Step("done", InnerExcept(preferences), <<>>)
    ELSE IF o.text.len > CompleteMinLen /\ o.text.term
    THEN Step("done", Returned("batched", o.text, {}), <<>>)
    ELSE IF o.text.len > SubstantialMinLen
    THEN Step("retry", NoResult,
              <<Call("stream", p, NoDeadline, "end"),
                Call("retry", CompletionPrompt(p, o.text), T_retry, "pending")>>)
    ELSE Step("done", Returned("batched", o.text, {}), <<>>)

\* the batched call is through: lines 176-196 and the inner except
AfterBatched(o, p, preferences) ==
    IF o.kind \in {"timeout", "error"}
    THEN Step("done", InnerExcept(preferences), <<>>)
    ELSE IF o.kind \in {"noresult", "nogenerations"}
    THEN Step("stream", NoResult, <<Call("stream", p, NoDeadline, "pending")>>)
    ELSE IF o.text.len > CompleteMinLen /\ o.text.blank
    THEN \* full_response.strip()[-1] of a blank text: IndexError
         Step("done", InnerExcept(preferences), <<>>)
    ELSE IF o.text.len > CompleteMinLen /\ o.text.term
    THEN Step("done", Returned("batched", o.text, {}), <<>>)
    ELSE IF o.text.len > SubstantialMinLen
    THEN Step("retry", NoResult,
              <<Call("retry", CompletionPrompt(p, o.text), T_retry, "pending")>>)
    ELSE Step("done", Returned("batched", o.text, {}), <<>>)

\* the completion retry is through: lines 190-193 and the inner except
AfterCompletion(o, full, preferences) ==
    IF o.kind \in {"timeout", "error"}
    THEN InnerExcept(preferences)
    ELSE IF o.kind = "nogenerations"
    THEN \* generations[0] of an empty list: IndexError
         InnerExcept(preferences)
    ELSE IF o.kind = "text"
    THEN Returned("retry", o.text, {})
    ELSE Returned("batched", full, {})

\* ------------------------------------------------------------ answer_question
Retrieved(kind, n, exc) == [kind |-> kind, n |-> n, exc |-> exc]

\* retriever.get_relevant_documents: embeds the question, then searches
RetrievalOutcomes(vs) ==
    {Retrieved("docs", k, NoExc) : k \in 0..Min(RetrieverK, vs)}
    \cup {Retrieved("error", 0, e) : e \in ModelErrors}
    \cup {Retrieved("stall", 0, NoExc)}

\* qa_chain.invoke, called without a deadline
QaOutcomes ==
    {Outcome("text", t, NoExc) :
        t \in {u \in ModelTexts : u.len \in {0, CompleteMinLen + 1}}}
    \cup {Outcome("error", EmptyStr, e) : e \in ModelErrors}
    \cup {Outcome("stall", EmptyStr, NoExc)}

QaError(e) == Returned("qa_error", Str(66 + e.msglen, FALSE, FALSE), {})

AnswerQuestion(vs, r, g) ==
    LET c1 == Call("retrieve", QuestionPrompt("question"), NoDeadline, r.kind)
        c2 == Call("qa_chain", QuestionPrompt("qa"), NoDeadline, g.kind)
    IN  IF vs = None
        THEN Step("done",
                  Returned("qa_uninitialized", Str(123, FALSE, TRUE), {}), <<>>)
        ELSE IF r.kind = "stall" THEN Step("blocked", NoResult, <<c1>>)
        ELSE IF r.kind = "error" THEN Step("done", QaError(r.exc), <<c1>>)
        ELSE IF g.kind = "stall" THEN Step("blocked", NoResult, <<c1, c2>>)
        ELSE IF g.kind = "error" THEN Step("done", QaError(g.exc), <<c1, c2>>)
        ELSE Step("done", Returned("qa_answer", g.text, {}), <<c1, c2>>)

\* ------------------------------------------------------------ query_documents
\* the attributes RAGSystem.__init__ sets on the instance
RAGSystemAttrs == {"document_processor", "llm", "prompt_template",
                   "travel_plan_prompt"}

\* hasattr(rag_system, name)
HasAttr(rs, name) == rs # "None" /\ name \in RAGSystemAttrs

\* the retrievals of a query: none is issued when the handler's guard fails
QueryRetrievals(rs, vs) ==
    IF HasAttr(rs, "vectorstore") THEN RetrievalOutcomes(vs)
    ELSE {Retrieved("none", 0, NoExc)}

QueryDocuments(rs, vs, r, g, r2) ==
    LET a == AnswerQuestion(vs, r, g)
        c3 == Call("retrieve", QuestionPrompt("question"), NoDeadline, r2.kind)
    IN  IF ~HasAttr(rs, "vectorstore")
        THEN \* HTTPException(400), caught by the outer except Exception
             [pc |-> "done", result |-> NoResult, calls |-> <<>>,
              payload |-> HttpError(500)]
        ELSE IF a.pc = "blocked"
        THEN [pc |-> "blocked", result |-> NoResult, calls |-> a.calls,
              payload |-> NoPayload]
        ELSE IF r2.kind = "stall"
        THEN [pc |-> "blocked", result |-> a.result,
              calls |-> a.calls \o <<c3>>, payload |-> NoPayload]
        ELSE IF r2.kind = "error"
        THEN [pc |-> "done", result |-> a.result, calls |-> a.calls \o <<c3>>,
              payload |-> HttpError(500)]
        ELSE [pc |-> "done", result |-> a.result, calls |-> a.calls \o <<c3>>,
              payload |-> Payload("success", 200, a.result, 0, r2.n)]

\* ------------------------------------------------------ RAGSystem singleton
\* instance: RAGSystem._instance (None, or the number of the construction
\* that made it); made: completed constructions; returned / raised: what
\* the last get_instance call gave its caller
NoSingleton == [instance |-> None, made |-> 0, document_processor |-> None,
                returned |-> None, raised |-> "none"]

\* main.document_processor, made once by initialize_rag_system
MainProcessor == 1
Processors == 1..MaxProcessors

GetInstance_Reconstruct(s, dp) ==
    IF dp = None
    THEN IF s.instance = None
         THEN [s EXCEPT !.returned = None, !.raised = "ValueError"]
         ELSE [s EXCEPT !.returned = s.instance, !.raised = "none"]
    ELSE [instance |-> s.made + 1, made |-> s.made + 1,
          document_processor |-> dp, returned |-> s.made + 1,
          raised |-> "none"]

\* RAGSystem.get_instance with RAGSystem.__init__, run without interruption
GetInstance(s, dp) ==
    IF s.instance = None
    THEN IF dp = None
         THEN [s EXCEPT !.returned = None, !.raised = "ValueError"]
         ELSE [instance |-> s.made + 1, made |-> s.made + 1,
               document_processor |-> dp, returned |-> s.made + 1,
               raised |-> "none"]
    ELSE [s EXCEPT !.returned = s.instance, !.raised = "none"]

\* initialize_rag_system: rs is main.rag_system
InitializeRagSystem(rs, s) ==
    IF rs = "None"
    THEN LET g == GetInstance(s, MainProcessor)
         IN  [rag_system |-> IF g.raised = "none" THEN "instance" ELSE rs,
              singleton |-> g, raised |-> g.raised # "none"]
    ELSE [rag_system |-> rs, singleton |-> s, raised |-> FALSE]

\* ------------------------------------------------------------------ save_local
\* FAISS.save_local writes the index file, then the docstore file, into the
\* directory itself: "torn" is a failure or a crash between the two writes
SaveOutcomes == {"ok", "fail", "torn"}

SaveLocal(index_file, docstore_file, n, save) ==
    IF save = "ok"
    THEN [persisted |-> n, docstore |-> n, raised |-> FALSE]
    ELSE IF save = "torn"
    THEN [persisted |-> n, docstore |-> docstore_file, raised |-> TRUE]
    ELSE [persisted |-> index_file, docstore |-> docstore_file,
          raised |-> TRUE]

\* ------------------------------------------------ load_or_create_vector_store
Loaded(vs, index_file, docstore_file, raised) ==
    [vectorstore |-> vs, persisted |-> index_file, docstore |-> docstore_file,
     raised |-> raised]

\* mutant: given file paths, the store is built from them whatever is saved
LoadOrCreate_Rebuild(vs, index_file, docstore_file, paths_given, ndocs, embed_ok, save) ==
    IF index_file # None /\ docstore_file # None /\ ~paths_given
    THEN Loaded(index_file, index_file, docstore_file, FALSE)
    ELSE IF ~paths_given THEN Loaded(vs, index_file, docstore_file, TRUE)
    ELSE IF ndocs = 0 \/ ~embed_ok
    THEN Loaded(vs, index_file, docstore_file, TRUE)
    ELSE LET w == SaveLocal(index_file, docstore_file, ndocs, save)
         IN  Loaded(ndocs, w.persisted, w.docstore, w.raised)

\* faiss_db exists (main.py creates it), so load_local is always tried and
\* succeeds when both files are there;
\* ndocs: the chunks process_documents gets out of file_paths
LoadOrCreate(vs, index_file, docstore_file, paths_given, ndocs, embed_ok, save) ==
    IF index_file # None /\ docstore_file # None
    THEN Loaded(index_file, index_file, docstore_file, FALSE)
    ELSE IF ~paths_given THEN Loaded(vs, index_file, docstore_file, TRUE)
    ELSE IF ndocs = 0 \/ ~embed_ok
    THEN Loaded(vs, index_file, docstore_file, TRUE)
    ELSE LET w == SaveLocal(index_file, docstore_file, ndocs, save)
         IN  Loaded(ndocs, w.persisted, w.docstore, w.raised)

\* main.py imports faiss and DocumentProcessor, not the FAISS class
MainImportsFAISS == FALSE

NoBoot == [ran |-> FALSE, load_failed |-> FALSE, build_failed |-> FALSE,
           empty_failed |-> FALSE, vectorstore |-> None]

Booted(l, load_failed, build_failed, empty_failed, raised) ==
    [vectorstore |-> l.vectorstore, persisted |-> l.persisted,
     docstore |-> l.docstore, raised |-> raised,
     boot |-> [ran |-> TRUE, load_failed |-> load_failed,
               build_failed |-> build_failed, empty_failed |-> empty_failed,
               vectorstore |-> l.vectorstore]]

StartupStore_Propagates(index_file, docstore_file, default_docs_exists, embed_ok, save) ==
    LET first == LoadOrCreate(None, index_file, docstore_file, FALSE, 0,
                              embed_ok, save)
        second == LoadOrCreate(first.vectorstore, first.persisted,
                               first.docstore, TRUE, 0, embed_ok, save)
    IN  IF ~first.raised THEN Booted(first, FALSE, FALSE, FALSE, FALSE)
        ELSE IF ~default_docs_exists
        THEN Booted(first, TRUE, TRUE, FALSE, FALSE)
        ELSE IF ~second.raised THEN Booted(second, TRUE, FALSE, FALSE, FALSE)
        ELSE IF MainImportsFAISS
        THEN Booted([second EXCEPT !.vectorstore = 0], TRUE, TRUE, FALSE, FALSE)
        ELSE Booted(second, TRUE, TRUE, TRUE, TRUE)

\* module level of main.py: load, else build from datasets/20_newsgroups,
\* else an empty in-memory store; the last except clause only logs
StartupStore(index_file, docstore_file, default_docs_exists, embed_ok, save) ==
    LET first == LoadOrCreate(None, index_file, docstore_file, FALSE, 0,
                              embed_ok, save)
        \* a directory path has no suffix: _get_loader raises, no document
        second == LoadOrCreate(first.vectorstore, first.persisted,
                               first.docstore, TRUE, 0, embed_ok, save)
    IN  IF ~first.raised THEN Booted(first, FALSE, FALSE, FALSE, FALSE)
        ELSE IF ~default_docs_exists
        THEN Booted(first, TRUE, TRUE, FALSE, FALSE)
        ELSE IF ~second.raised THEN Booted(second, TRUE, FALSE, FALSE, FALSE)
        ELSE IF MainImportsFAISS
        THEN Booted([second EXCEPT !.vectorstore = 0], TRUE, TRUE, FALSE, FALSE)
        ELSE Booted(second, TRUE, TRUE, TRUE, FALSE)

\* ---------------------------------------------------------------- upload_files
\* the embedding service and the file system, as an ingestion calls them
IoCall(stage, outcome) == Call(stage, NoPrompt, NoDeadline, outcome)

\* mutant: the upload builds a new store from its chunks whatever is there
UploadFiles_Replace(vs, index_file, docstore_file, files, n, embed_ok, save) ==
    LET w == SaveLocal(index_file, docstore_file, n, save)
    IN  IF files \in {"none", "invalid", "unreadable"}
        THEN [vectorstore |-> vs, persisted |-> index_file,
              docstore |-> docstore_file, payload |-> HttpError(400),
              calls |-> <<>>]
        ELSE IF ~embed_ok
        THEN [vectorstore |-> vs, persisted |-> index_file,
              docstore |-> docstore_file, payload |-> HttpError(500),
              calls |-> <<IoCall("embed", "error")>>]
        ELSE [vectorstore |-> n, persisted |-> w.persisted,
              docstore |-> w.docstore,
              payload |-> IF w.raised THEN HttpError(500)
                          ELSE Payload("success", 200, NoResult, 0, n),
              calls |-> <<IoCall("embed", "vectors"), IoCall("save", save)>>]

\* files: "none" (empty list), "invalid" (none passes validation),
\* "unreadable" (no content extracted), "ok" (n chunks extracted)
UploadFiles(vs, index_file, docstore_file, files, n, embed_ok, save) ==
    LET grown == IF vs # None THEN vs + n ELSE n
        w == SaveLocal(index_file, docstore_file, grown, save)
    IN  IF files \in {"none", "invalid", "unreadable"}
        THEN [vectorstore |-> vs, persisted |-> index_file,
              docstore |-> docstore_file, payload |-> HttpError(400),
              calls |-> <<>>]
        ELSE IF ~embed_ok
        THEN [vectorstore |-> vs, persisted |-> index_file,
              docstore |-> docstore_file, payload |-> HttpError(500),
              calls |-> <<IoCall("embed", "error")>>]
        ELSE [vectorstore |-> grown, persisted |-> w.persisted,
              docstore |-> w.docstore,
              payload |-> IF w.raised THEN HttpError(500)
                          ELSE Payload("success", 200, NoResult, 0, n),
              calls |-> <<IoCall("embed", "vectors"), IoCall("save", save)>>]

\* ----------------------------------------------------------- ingest_documents
\* DocumentProcessor defines no get_vectors
HasGetVectors == FALSE

\* path: "missing", "empty" (no content in it), "ok" (n chunks in it)
IngestDocuments(vs, index_file, docstore_file, path, n, embed_ok, save) ==
    LET ndocs == IF path = "ok" THEN n ELSE 0
        l == LoadOrCreate(vs, index_file, docstore_file, TRUE, ndocs,
                          embed_ok, save)
        loadable == index_file # None /\ docstore_file # None
    IN  IF path = "missing"
        THEN \* HTTPException(400), caught by the except Exception
             [vectorstore |-> vs, persisted |-> index_file,
              docstore |-> docstore_file, payload |-> HttpError(500),
              calls |-> <<>>]
        ELSE [vectorstore |-> l.vectorstore, persisted |-> l.persisted,
              docstore |-> l.docstore,
              payload |-> IF l.raised \/ ~HasGetVectors THEN HttpError(500)
                          ELSE Payload("success", 200, NoResult, 0, 0),
              calls |-> IF loadable THEN <<IoCall("load", "loaded")>>
                        ELSE IF ndocs = 0 THEN <<IoCall("load", "absent")>>
                        ELSE IF ~embed_ok
                        THEN <<IoCall("load", "absent"),
                               IoCall("embed", "error")>>
                        ELSE <<IoCall("load", "absent"),
                               IoCall("embed", "vectors"),
                               IoCall("save", save)>>]

\* ------------------------------------------------------------------- actions
Init ==
    /\ phase = "boot"
    /\ persisted \in {None} \cup 0..1
    /\ vectorstore = None
    /\ rag_system = "None"
    /\ op = "none"
    /\ pc = "idle"
    /\ req = NoReq
    /\ has_vectorstore = FALSE
    /\ prompt = NoPrompt
    /\ full_response = EmptyStr
    /\ response = EmptyStr
    /\ nchunks = 0
    /\ received = <<>>
    /\ calls = <<>>
    /\ result = NoResult
    /\ payload = NoPayload
    /\ ingested = FALSE
    /\ docstore = persisted
    /\ singleton = NoSingleton
    /\ callers = <<>>
    /\ tasks = <<>>
    /\ boot = NoBoot

\* initialize_rag_system() and the module-level try blocks of main.py
Startup ==
    /\ phase = "boot"
    /\ \E default_docs_exists \in BOOLEAN, embed_ok \in BOOLEAN,
          save \in SaveOutcomes :
         LET i == InitializeRagSystem(rag_system, singleton)
             s == StartupStore(persisted, docstore, default_docs_exists,
                               embed_ok, save)
         IN  /\ rag_system' = i.rag_system
             /\ singleton' = i.singleton
             /\ vectorstore' = s.vectorstore
             /\ persisted' = s.persisted
             /\ docstore' = s.docstore
             /\ boot' = s.boot
             /\ phase' = IF i.raised \/ s.raised THEN "crashed" ELSE "serving"
    /\ UNCHANGED <<ingested, callers, tasks>>
    /\ UNCHANGED <<op, pc, req, calls, result, payload>>
    /\ UNCHANGED ladderVars

Ready == phase = "serving" /\ pc = "idle"

\* the common entry of a generate_travel_plan call
Begin(o, request) ==
    \E g \in GroundedOutcomes(vectorstore # None) :
        LET has == vectorstore # None
            s == EnterPlan(request, has, g)
        IN  /\ op' = o
            /\ req' = request
            /\ has_vectorstore' = has
            /\ prompt' = IF request.preferences = NoPrefs THEN NoPrompt
                         ELSE UngroundedPrompt(request.city, request.days,
                                               request.preferences)
            /\ full_response' = EmptyStr
            /\ response' = EmptyStr
            /\ nchunks' = 0
            /\ received' = <<>>
            /\ pc' = s.pc
            /\ calls' = s.calls
            /\ result' = s.result
            /\ payload' = IF s.pc = "done" THEN Respond(o, s.result, request)
                          ELSE NoPayload
            /\ UNCHANGED processVars
            /\ UNCHANGED indexVars

\* RAGSystem.generate_travel_plan called on the instance
generate_travel_plan ==
    /\ Ready
    /\ \E city \in Cities, days \in Days, preferences \in Preferences :
         Begin("generate_travel_plan",
               [city |-> city, days |-> days, preferences |-> preferences,
                duration |-> days])

\* POST /api/generate-itinerary
generate_itinerary ==
    /\ Ready
    /\ \E destination \in Cities, d \in Days, preferences \in Preferences :
         IF rag_system = "None"
         THEN /\ op' = "generate_itinerary"
              /\ req' = [city |-> destination, days |-> d,
                         preferences |-> preferences, duration |-> d]
              /\ pc' = "done"
              /\ calls' = <<>>
              /\ result' = NoResult
              /\ payload' = HttpError(500)
              /\ UNCHANGED processVars
              /\ UNCHANGED indexVars
              /\ UNCHANGED ladderVars
         ELSE Begin("generate_itinerary",
                    [city |-> destination, days |-> Min(d, MaxPlanDays),
                     preferences |-> preferences, duration |-> d])

Finish(res, cs) ==
    /\ pc' = "done"
    /\ result' = res
    /\ calls' = cs
    /\ payload' = Respond(op, res, req)

BatchedReturns ==
    /\ pc = "batched"
    /\ \E o \in GenOutcomes :
         LET s == AfterBatched(o, prompt, req.preferences)
         IN  /\ pc' = s.pc
             /\ result' = s.result
             /\ calls' = Settle(calls, o.kind) \o s.calls
             /\ full_response' = IF o.kind = "text" THEN o.text ELSE full_response
             /\ payload' = IF s.pc = "done" THEN Respond(op, s.result, req)
                           ELSE NoPayload
    /\ UNCHANGED processVars
    /\ UNCHANGED <<op, req, has_vectorstore, prompt,
                   response, nchunks, received>>
    /\ UNCHANGED indexVars

CompletionReturns ==
    /\ pc = "retry"
    /\ \E o \in GenOutcomes :
         Finish(AfterCompletion(o, full_response, req.preferences),
                Settle(calls, o.kind))
    /\ UNCHANGED processVars
    /\ UNCHANGED <<op, req>>
    /\ UNCHANGED indexVars
    /\ UNCHANGED ladderVars

\* one iteration of `async for chunk in self.llm.astream(prompt)`;
\* late: the 45 s ceiling is exceeded when the chunk arrives
StreamYields ==
    /\ pc = "stream"
    /\ nchunks < MaxChunks
    /\ \E chunk \in StreamChunks, late \in BOOLEAN :
         IF late
         THEN /\ Finish(AfterStream(response), Settle(calls, "ceiling"))
              /\ UNCHANGED <<response, nchunks, received>>
         ELSE /\ response' = IF chunk.len > 0 THEN Concat(response, chunk)
                             ELSE response
              /\ nchunks' = nchunks + 1
              /\ received' = Append(received, chunk)
              /\ UNCHANGED <<pc, result, calls, payload>>
    /\ UNCHANGED processVars
    /\ UNCHANGED <<op, req, has_vectorstore, prompt,
                   full_response>>
    /\ UNCHANGED indexVars

\* the stream is exhausted
StreamEnds ==
    /\ pc = "stream"
    /\ Finish(AfterStream(response), Settle(calls, "end"))
    /\ UNCHANGED processVars
    /\ UNCHANGED <<op, req>>
    /\ UNCHANGED indexVars
    /\ UNCHANGED ladderVars

\* astream raises
StreamRaises ==
    /\ pc = "stream"
    /\ \E e \in ModelErrors :
         Finish(InnerExcept(req.preferences), Settle(calls, "error"))
    /\ UNCHANGED processVars
    /\ UNCHANGED <<op, req>>
    /\ UNCHANGED indexVars
    /\ UNCHANGED ladderVars

\* the stream never yields its next chunk: the loop body, and with it the
\* ceiling check, is never entered again
StreamStalls ==
    /\ pc = "stream"
    /\ pc' = "blocked"
    /\ calls' = Settle(calls, "stall")
    /\ UNCHANGED processVars
    /\ UNCHANGED <<op, req, result, payload>>
    /\ UNCHANGED indexVars
    /\ UNCHANGED ladderVars

\* RAGSystem.answer_question called on the instance (a synchronous method)
answer_question ==
    /\ Ready
    /\ \E r \in RetrievalOutcomes(vectorstore), g \in QaOutcomes :
         LET s == AnswerQuestion(vectorstore, r, g)
         IN  /\ pc' = s.pc
             /\ result' = s.result
             /\ calls' = s.calls
    /\ op' = "answer_question"
    /\ req' = NoReq
    /\ has_vectorstore' = (vectorstore # None)
    /\ payload' = NoPayload
    /\ prompt' = NoPrompt
    /\ full_response' = EmptyStr
    /\ response' = EmptyStr
    /\ nchunks' = 0
    /\ received' = <<>>
    /\ UNCHANGED processVars
    /\ UNCHANGED indexVars

\* POST /api/query
query_documents ==
    /\ Ready
    /\ \E r \in QueryRetrievals(rag_system, vectorstore), g \in QaOutcomes,
          r2 \in QueryRetrievals(rag_system, vectorstore) :
         LET s == QueryDocuments(rag_system, vectorstore, r, g, r2)
         IN  /\ pc' = s.pc
             /\ result' = s.result
             /\ calls' = s.calls
             /\ payload' = s.payload
    /\ op' = "query_documents"
    /\ req' = NoReq
    /\ has_vectorstore' = (vectorstore # None)
    /\ prompt' = NoPrompt
    /\ full_response' = EmptyStr
    /\ response' = EmptyStr
    /\ nchunks' = 0
    /\ received' = <<>>
    /\ UNCHANGED processVars
    /\ UNCHANGED indexVars

\* POST /api/upload
upload_files ==
    /\ Ready
    /\ \E files \in {"none", "invalid", "unreadable", "ok"},
          n \in 1..MaxEntries, embed_ok \in BOOLEAN, save \in SaveOutcomes :
         /\ (IF vectorstore # None THEN vectorstore ELSE 0) + n <= MaxEntries
         /\ LET i == InitializeRagSystem(rag_system, singleton)
                s == UploadFiles(vectorstore, persisted, docstore, files, n,
                                 embed_ok, save)
                g == GetInstance(i.singleton, MainProcessor)
            IN  /\ vectorstore' = s.vectorstore
                /\ persisted' = s.persisted
                /\ docstore' = s.docstore
                /\ payload' = s.payload
                /\ ingested' = (ingested \/ s.payload.status = "success")
                /\ singleton' = IF s.payload.status = "success" THEN g
                                ELSE i.singleton
                /\ rag_system' = i.rag_system
                /\ calls' = s.calls
                /\ req' = [files |-> files,
                           chunks |-> IF files = "ok" THEN n ELSE 0]
    /\ op' = "upload_files"
    /\ pc' = "done"
    /\ has_vectorstore' = FALSE
    /\ result' = NoResult
    /\ prompt' = NoPrompt
    /\ full_response' = EmptyStr
    /\ response' = EmptyStr
    /\ nchunks' = 0
    /\ received' = <<>>
    /\ UNCHANGED <<phase, callers, tasks, boot>>

\* POST /api/ingest
ingest_documents ==
    /\ Ready
    /\ \E path \in {"missing", "empty", "ok"}, n \in 1..MaxEntries,
          embed_ok \in BOOLEAN, save \in SaveOutcomes :
         LET s == IngestDocuments(vectorstore, persisted, docstore, path, n,
                                  embed_ok, save)
         IN  /\ vectorstore' = s.vectorstore
             /\ persisted' = s.persisted
             /\ docstore' = s.docstore
             /\ payload' = s.payload
             /\ calls' = s.calls
             /\ req' = [path |-> path,
                        chunks |-> IF path = "ok" THEN n ELSE 0]
    /\ op' = "ingest_documents"
    /\ pc' = "done"
    /\ has_vectorstore' = FALSE
    /\ result' = NoResult
    /\ prompt' = NoPrompt
    /\ full_response' = EmptyStr
    /\ response' = EmptyStr
    /\ nchunks' = 0
    /\ received' = <<>>
    /\ UNCHANGED ingested
    /\ UNCHANGED processVars

\* RAGSystem.get_instance called with any argument or none
get_instance ==
    /\ Ready
    /\ \E dp \in {None} \cup Processors :
         singleton' = GetInstance(singleton, dp)
    /\ op' = "get_instance"
    /\ pc' = "done"
    /\ req' = NoReq
    /\ has_vectorstore' = FALSE
    /\ calls' = <<>>
    /\ result' = NoResult
    /\ payload' = NoPayload
    /\ prompt' = NoPrompt
    /\ full_response' = EmptyStr
    /\ response' = EmptyStr
    /\ nchunks' = 0
    /\ received' = <<>>
    /\ UNCHANGED <<phase, rag_system, callers, tasks, boot>>
    /\ UNCHANGED indexVars

\* the response is handed to the caller; the next request can be served
Deliver ==
    /\ pc = "done"
    /\ pc' = "idle"
    /\ op' = "none"
    /\ req' = NoReq
    /\ has_vectorstore' = FALSE
    /\ prompt' = NoPrompt
    /\ full_response' = EmptyStr
    /\ response' = EmptyStr
    /\ nchunks' = 0
    /\ received' = <<>>
    /\ calls' = <<>>
    /\ result' = NoResult
    /\ payload' = NoPayload
    /\ UNCHANGED processVars
    /\ UNCHANGED indexVars

\* the steps of a generate_travel_plan call after its first await
LadderStep ==
    \/ BatchedReturns
    \/ CompletionReturns
    \/ StreamYields
    \/ StreamEnds
    \/ StreamRaises

Next ==
    \/ Startup
    \/ generate_travel_plan
    \/ generate_itinerary
    \/ answer_question
    \/ query_documents
    \/ upload_files
    \/ ingest_documents
    \/ get_instance
    \/ LadderStep
    \/ StreamStalls
    \/ Deliver

Spec == Init /\ [][Next]_vars

\* the event loop runs every step that is ready; whether the model service
\* answers is not up to the program, so StreamStalls carries no fairness
FairSpec == Spec /\ WF_vars(Startup) /\ WF_vars(LadderStep) /\ WF_vars(Deliver)

\* ===================================================================== claims
PlanCall ==
    \/ op = "generate_travel_plan"
    \/ op = "generate_itinerary" /\ rag_system # "None"

Stages(set) == {i \in DOMAIN calls : calls[i].stage \in set}

\* C1: a generate_travel_plan call that is through has returned a string to
\* its caller; no exception has propagated out of it, whatever the index
\* state, the preferences and the outcomes of the model calls were.
C1_PlanAlwaysReturnsString ==
    (PlanCall /\ pc = "done") => result.kind = "return"

\* C1 witness: preferences absent, the AttributeError was caught and turned
\* into the error text.
C1_Witness ==
    /\ PlanCall /\ pc = "done"
    /\ req.preferences = NoPrefs
    /\ result.kind = "return" /\ result.tag = "error_msg"

\* C2: with an Uninitialized index every generate_travel_plan call returns a
\* non-empty string.
C2_UninitializedReturnsNonEmpty ==
    (PlanCall /\ pc = "done" /\ ~has_vectorstore)
        => (result.kind = "return" /\ result.text.len > 0)

\* C3: every answer of the generate_itinerary endpoint has status success
\* and carries a text as its itinerary, also when the ladder ended Failed.
C3_ItineraryAlwaysSuccess ==
    (op = "generate_itinerary" /\ pc = "done")
        => (payload.status = "success" /\ payload.text.kind = "return")

\* C3 witness: the ladder ended Failed (the fixed apology after an empty
\* stream) and the endpoint answered success with the apology as itinerary.
C3_Witness ==
    /\ op = "generate_itinerary" /\ pc = "done"
    /\ payload.status = "success"
    /\ payload.text.tag = "apology"

\* C4: whenever the batched call failed (error or deadline), the streaming
\* stage was attempted with the same ungrounded prompt before the response.
C4_BatchedFailureThenStreaming ==
    (PlanCall /\ pc = "done"
        /\ \E i \in Stages({"batched"}) : calls[i].outcome \in {"error", "timeout"})
        => \E j \in Stages({"stream"}) : calls[j].prompt = prompt

\* C5: with a Loaded index, a timeout or error of the grounded generation
\* call is followed by an ungrounded generation attempt, and the request
\* does not end with the grounded stage's failure as its result.
C5_GroundedFailureThenFallback ==
    (pc = "done" /\ has_vectorstore /\ vectorstore >= 1
        /\ \E i \in Stages({"qa_chain", "grounded"}) :
              calls[i].outcome \in {"error", "timeout"})
        => /\ \E i \in Stages({"qa_chain", "grounded"}) :
                 \E j \in Stages({"batched"}) : j > i
           /\ result.tag \notin {"qa_error", "error_msg", "timeout_msg"}

\* C6: a request served while the index is Uninitialized or Empty (an
\* itinerary with any preferences, or a question) has issued a batched
\* generation call with an ungrounded prompt before it returns.
C6_NoIndexThenUngroundedCall ==
    (pc = "done" /\ (PlanCall \/ op = "answer_question")
        /\ vectorstore \in {None, 0})
        => \E i \in Stages({"batched"}) :
              calls[i].prompt.kind \in {"ungrounded", "question"}

\* C7: after an ingestion left the index Loaded, and with no retrieval or
\* generation call failing, the query endpoint answers success.
C7_QueryAfterIngestSucceeds ==
    (op = "query_documents" /\ pc = "done" /\ ingested /\ vectorstore >= 1
        /\ \A i \in DOMAIN calls : calls[i].outcome \in {"docs", "text"})
        => payload.status = "success"

\* C8: no stage of a generate_travel_plan call waits without a step of the
\* call being able to return control: a call that is not through can always
\* take its next step.
C8_EveryStageReturnsControl ==
    (PlanCall /\ pc \notin {"idle", "done"}) => ENABLED LadderStep

\* C9: every external call an answer_question issues carries a deadline, and
\* the call never waits for ever.
C9_QaCallsHaveDeadlines ==
    op = "answer_question"
        => /\ \A i \in DOMAIN calls : calls[i].deadline # NoDeadline
           /\ pc # "blocked"

\* C10: the days value in every prompt a generate_travel_plan call sends to
\* the generation model is at most 7.
C10_PromptDaysAtMostSeven ==
    PlanCall => \A i \in DOMAIN calls : calls[i].prompt.days <= MaxPlanDays

\* ------------------------------------------- the itinerary handler by itself
\* what the awaited generate_travel_plan hands the handler: a returned text of
\* any stage, or an exception
PlanOutcomes ==
    {Returned("batched", t, {}) : t \in ModelTexts}
        \cup {Returned("fallback", Str(2081, FALSE, FALSE), {}), Apology}
        \cup {Raised(e) : e \in ModelErrors \cup {AttributeError, IndexError,
                                                  TimeoutError}}

HandlerInit ==
    /\ phase = "serving"
    /\ persisted = None
    /\ docstore = None
    /\ vectorstore = None
    /\ rag_system = "instance"
    /\ singleton = GetInstance(NoSingleton, MainProcessor)
    /\ callers = <<>>
    /\ tasks = <<>>
    /\ boot = NoBoot
    /\ op = "none"
    /\ pc = "idle"
    /\ req = NoReq
    /\ has_vectorstore = FALSE
    /\ prompt = NoPrompt
    /\ full_response = EmptyStr
    /\ response = EmptyStr
    /\ nchunks = 0
    /\ received = <<>>
    /\ calls = <<>>
    /\ result = NoResult
    /\ payload = NoPayload
    /\ ingested = FALSE

\* generate_itinerary from its request to its answer, the awaited call taken
\* as one step with the outcome travel_plan
ItineraryHandler ==
    /\ Ready
    /\ rag_system # "None"
    /\ \E destination \in Cities, d \in Days, preferences \in Preferences,
          travel_plan \in PlanOutcomes :
         LET request == [city |-> destination, days |-> Min(d, MaxPlanDays),
                         preferences |-> preferences, duration |-> d]
         IN  /\ op' = "generate_itinerary"
             /\ req' = request
             /\ result' = travel_plan
             /\ payload' = Respond("generate_itinerary", travel_plan, request)
    /\ pc' = "done"
    /\ UNCHANGED calls
    /\ UNCHANGED processVars
    /\ UNCHANGED indexVars
    /\ UNCHANGED ladderVars

HandlerNext ==
    \/ ItineraryHandler
    \/ Deliver

HandlerSpec == HandlerInit /\ [][HandlerNext]_vars

CannedTags == {"fallback", "apology", "timeout_msg", "error_msg",
               "unavailable"}

\* C12: when preferences names nightlife or beer and generate_travel_plan
\* returns a text of its own (fallback itinerary, apology, timeout or error
\* message), that text carries the bar/brewery addendum.
C12_CannedTextCarriesAddendum ==
    (PlanCall /\ pc = "done" /\ result.kind = "return"
        /\ result.tag \in CannedTags
        /\ (HasNightlife(req.preferences) \/ HasBeer(req.preferences)))
        => result.addenda # {}

\* ------------------------------------------------- exception messages in texts
\* str(e)[:100] of the itinerary handler
ErrorSummaryMax == 100

\* characters of the exception message a response text carries: its length
\* less the fixed text in front of the message
Carried(res) ==
    IF res.tag = "qa_error" THEN res.text.len - 66
    ELSE IF res.tag = "error_msg" THEN res.text.len - 69
    ELSE IF res.tag = "handler_error" THEN res.text.len - 86
    ELSE 0

\* C13: a response text that carries the message of an exception carries at
\* most its first ErrorSummaryMax characters.
C13_ErrorMessageBounded ==
    /\ pc = "done" => Carried(result) <= ErrorSummaryMax
    /\ pc = "done" => Carried(payload.text) <= ErrorSummaryMax

\* ------------------------------------- get_instance called from several threads
\* get_instance takes no lock: between two statements of one caller the
\* interpreter can run the statements of another
Callers == 1..MaxCallers

NoCaller == [pc |-> "idle", document_processor |-> None, self |-> None,
             returned |-> None, raised |-> "none"]

SingletonInit ==
    /\ phase = "boot"
    /\ persisted = None
    /\ docstore = None
    /\ vectorstore = None
    /\ rag_system = "None"
    /\ singleton = NoSingleton
    /\ callers = [t \in Callers |-> NoCaller]
    /\ tasks = <<>>
    /\ boot = NoBoot
    /\ op = "none"
    /\ pc = "idle"
    /\ req = NoReq
    /\ has_vectorstore = FALSE
    /\ prompt = NoPrompt
    /\ full_response = EmptyStr
    /\ response = EmptyStr
    /\ nchunks = 0
    /\ received = <<>>
    /\ calls = <<>>
    /\ result = NoResult
    /\ payload = NoPayload
    /\ ingested = FALSE

restOfSingleton == <<phase, persisted, vectorstore, rag_system, op, pc, req,
                     has_vectorstore, prompt, full_response, response,
                     nchunks, received, calls, result, payload, ingested,
                     docstore, tasks, boot>>

\* a first call: RAGSystem.get_instance(document_processor)
CallGetInstance(t) ==
    /\ callers[t].pc = "idle"
    /\ singleton.instance = None
    /\ \E dp \in Processors :
         callers' = [callers EXCEPT ![t].pc = "check",
                                    ![t].document_processor = dp]
    /\ UNCHANGED singleton
    /\ UNCHANGED restOfSingleton

\* line 60: if cls._instance is None (line 61 passes: an argument is given)
CheckInstance(t) ==
    /\ callers[t].pc = "check"
    /\ callers' = [callers EXCEPT ![t].pc = IF singleton.instance = None
                                            THEN "init" ELSE "return"]
    /\ UNCHANGED singleton
    /\ UNCHANGED restOfSingleton

\* lines 16-17: the guard of __init__
InitGuard(t) ==
    /\ callers[t].pc = "init"
    /\ callers' = IF singleton.instance # None
                  THEN [callers EXCEPT ![t].pc = "done",
                                       ![t].raised = "Exception"]
                  ELSE [callers EXCEPT ![t].pc = "body"]
    /\ UNCHANGED singleton
    /\ UNCHANGED restOfSingleton

\* lines 19-54: the fields of the new object, the model client, the prompts
InitBody(t) ==
    /\ callers[t].pc = "body"
    /\ callers' = [callers EXCEPT ![t].pc = "publish"]
    /\ UNCHANGED singleton
    /\ UNCHANGED restOfSingleton

\* line 56: RAGSystem._instance = self; the construction is complete
InitPublish(t) ==
    /\ callers[t].pc = "publish"
    /\ singleton' = [singleton EXCEPT
                        !.instance = singleton.made + 1,
                        !.made = singleton.made + 1,
                        !.document_processor = callers[t].document_processor]
    /\ callers' = [callers EXCEPT ![t].pc = "assign",
                                  ![t].self = singleton.made + 1]
    /\ UNCHANGED restOfSingleton

\* line 63: cls._instance = <the object cls(document_processor) made>
AssignInstance(t) ==
    /\ callers[t].pc = "assign"
    /\ singleton' = [singleton EXCEPT !.instance = callers[t].self]
    /\ callers' = [callers EXCEPT ![t].pc = "return"]
    /\ UNCHANGED restOfSingleton

\* line 64: return cls._instance
ReturnInstance(t) ==
    /\ callers[t].pc = "return"
    /\ callers' = [callers EXCEPT ![t].pc = "done",
                                  ![t].returned = singleton.instance]
    /\ UNCHANGED singleton
    /\ UNCHANGED restOfSingleton

SingletonNext ==
    \E t \in Callers :
        \/ CallGetInstance(t)
        \/ CheckInstance(t)
        \/ InitGuard(t)
        \/ InitBody(t)
        \/ InitPublish(t)
        \/ AssignInstance(t)
        \/ ReturnInstance(t)

SingletonSpec == SingletonInit /\ [][SingletonNext]_vars

\* C14: when concurrent first calls of get_instance are all through, exactly
\* one construction has completed, no caller got an exception and all callers
\* got the same instance.
C14_ConcurrentFirstCallsOneInstance ==
    (DOMAIN callers # {} /\ \A t \in DOMAIN callers : callers[t].pc = "done")
        => /\ singleton.made = 1
           /\ \A t \in DOMAIN callers : callers[t].raised = "none"
           /\ \A t, u \in DOMAIN callers :
                callers[t].returned = callers[u].returned

\* C15: once an instance is constructed, every later get_instance call (any
\* argument or none) and every initialize_rag_system returns or keeps that
\* instance, constructs nothing and leaves RAGSystem._instance and the
\* instance's document_processor as they are.
C15_LaterCallsKeepInstance ==
    [][singleton.instance # None
        => /\ singleton'.instance = singleton.instance
           /\ singleton'.made = singleton.made
           /\ singleton'.document_processor = singleton.document_processor
           /\ singleton'.returned = singleton.instance
           /\ singleton'.raised = "none"
           /\ rag_system' = rag_system]_vars

C15_Witness ==
    /\ op \in {"get_instance", "upload_files"}
    /\ pc = "done"
    /\ singleton.made = 1
    /\ singleton.returned = singleton.instance
    /\ (op = "upload_files" => payload.status = "success")

\* C16: after startup, when loading the persisted index failed and building
\* from source failed (no source documents, or a build error), the index is
\* Empty (a store with zero entries), not None.
C16_StartupFallsBackToEmptyIndex ==
    (boot.ran /\ boot.load_failed /\ boot.build_failed)
        => boot.vectorstore = 0

\* C17: no failure of loading, of rebuilding or of constructing the Empty
\* index leaves the startup sequence: startup completes and the process
\* serves requests.
C17_StartupNeverAborts ==
    /\ phase # "crashed"
    /\ boot.ran => phase = "serving"

C17_Witness ==
    /\ phase = "serving"
    /\ boot.load_failed
    /\ boot.build_failed
    /\ boot.empty_failed

\* the external calls of the operation all answered
CallsAnswered == \A i \in DOMAIN calls : calls[i].outcome \in {"docs", "text"}

\* C18: a query against an Empty index (the retriever of answer_question, the
\* query endpoint) returns zero results and neither raises nor answers an
\* error.
C18_QueryOnEmptyIndexReturnsNothing ==
    /\ (op = "answer_question" /\ pc = "done" /\ vectorstore = 0
            /\ CallsAnswered)
        => result.tag = "qa_answer"
    /\ (op = "query_documents" /\ pc = "done" /\ vectorstore = 0
            /\ CallsAnswered)
        => (payload.status = "success" /\ payload.count = 0)

\* the embedding service and the file system did what the ingestion asked
IoAnswered ==
    \A i \in DOMAIN calls :
        calls[i].outcome \in {"loaded", "absent", "vectors", "ok"}

\* C19: an ingestion call (upload_files, ingest_documents) answers an error
\* only if no file yielded content: when at least one file or path yields
\* content, it answers a success payload.
C19_IngestionSucceedsWithContent ==
    (op \in {"upload_files", "ingest_documents"} /\ pc = "done"
        /\ req.chunks >= 1 /\ IoAnswered)
        => payload.status = "success"

\* C20: persisting the index is atomic: whatever a save in upload_files or in
\* load_or_create_vector_store does, faiss_db holds the complete previous
\* index with its docstore or the complete new one, never a mismatched pair.
C20_PersistedPairIsWhole ==
    persisted = docstore

\* entries of an in-memory index, none for None
Entries(vs) == IF vs = None THEN 0 ELSE vs

\* C22: an upload that answers success with n >= 1 chunks leaves the index
\* Loaded with n entries more than before (exactly n from an Uninitialized
\* index), reports chunks_processed = n, and the persisted index holds what
\* the in-memory index holds.
C22_UploadAddsItsChunks ==
    [][(pc = "idle" /\ op' = "upload_files" /\ payload'.status = "success")
        => /\ req'.chunks >= 1
           /\ vectorstore' = Entries(vectorstore) + req'.chunks
           /\ payload'.count = req'.chunks
           /\ persisted' = vectorstore'
           /\ docstore' = vectorstore']_vars

C22_Witness ==
    /\ op = "upload_files"
    /\ pc = "done"
    /\ payload.status = "success"
    /\ payload.count = 1
    /\ vectorstore = 2
    /\ persisted = 2

\* C27: an upload that answers an error (400 or 500) leaves the in-memory
\* index with the entries it had before the request.
C27_FailedUploadLeavesIndex ==
    [][(pc = "idle" /\ op' = "upload_files" /\ payload'.status = "error")
        => vectorstore' = vectorstore]_vars

\* faiss_db holds an index that load_local can read
Loadable == persisted # None /\ docstore # None

\* C28: with a loadable persisted index, load_or_create_vector_store(paths)
\* makes the loaded index the in-memory one and builds, adds and saves
\* nothing, whatever the paths: the files are not read and faiss_db is left
\* as it is; it builds and saves only when the load failed and paths are given.
C28_LoadableIndexIsOnlyLoaded ==
    [][(pc = "idle" /\ op' = "ingest_documents" /\ req'.path # "missing")
        => /\ Loadable
              => /\ vectorstore' = persisted
                 /\ persisted' = persisted
                 /\ docstore' = docstore
                 /\ calls' = <<IoCall("load", "loaded")>>
           /\ (persisted' # persisted \/ docstore' # docstore
                  \/ \E i \in DOMAIN calls' : calls'[i].stage = "save")
              => (~Loadable /\ calls'[1] = IoCall("load", "absent"))]_vars

C28_Witness ==
    /\ op = "ingest_documents"
    /\ pc = "done"
    /\ req.path = "ok"
    /\ req.chunks >= 1
    /\ calls = <<IoCall("load", "loaded")>>
    /\ vectorstore = persisted

\* the batched text is substantial but not terminated (lines 180, 184)
SubstantialNotTerminated(t) ==
    /\ t.len > SubstantialMinLen
    /\ ~(t.len > CompleteMinLen /\ t.term)

\* C23: when the batched response is substantial but not terminated, exactly
\* one completion retry is issued, its prompt containing the partial text,
\* and the call ends with a generated text (the retry's, or the partial text
\* when the retry yields nothing, fails or times out), never with an error or
\* a canned text; no second retry and no streaming is started.
C23_IncompleteThenOneRetry ==
    (PlanCall /\ pc = "done" /\ Len(calls) >= 1
        /\ calls[1].stage = "batched" /\ calls[1].outcome = "text"
        /\ SubstantialNotTerminated(full_response))
        => /\ Len(calls) = 2
           /\ calls[2].stage = "retry"
           /\ calls[2].prompt.partial = full_response
           /\ result.tag \in {"retry", "batched"}

\* the model calls of a generate_travel_plan call so far, in ladder order
LadderOrder ==
    /\ Len(calls) <= 2
    /\ Len(calls) >= 1 => calls[1].stage = "batched"
    /\ Len(calls) = 2 => calls[2].stage \in {"retry", "stream"}
    /\ pc = "done" => \A i \in DOMAIN calls : calls[i].outcome # "pending"

\* C25: one generate_travel_plan call issues at most two model calls, the
\* batched call first, then at most one of the completion retry and the
\* streaming call; once it has returned, no further model call is issued for
\* the request.
C25_AtMostTwoCallsInLadderOrder ==
    /\ [](PlanCall => LadderOrder)
    /\ [][(PlanCall /\ pc = "done") => (calls' = calls \/ calls' = <<>>)]_vars

C25_Witness ==
    /\ PlanCall
    /\ pc = "done"
    /\ Len(calls) = 2
    /\ calls[2].stage = "stream"
    /\ result.tag = "stream"

RECURSIVE Joined(_)
Joined(cs) ==
    IF cs = <<>> THEN EmptyStr
    ELSE Concat(Joined(SubSeq(cs, 1, Len(cs) - 1)), cs[Len(cs)])

\* C24: when the streaming stage ends without an error (the stream is
\* exhausted or the 45 s ceiling is reached), the call returns the accumulated
\* text if it is not blank and the fixed apology otherwise; the accumulated
\* text is the chunks received before the ceiling, put together in arrival
\* order.
C24_StreamReturnsWhatArrived ==
    (PlanCall /\ pc = "done" /\ Len(calls) = 2 /\ calls[2].stage = "stream"
        /\ calls[2].outcome \in {"end", "ceiling"})
        => /\ response = Joined(received)
           /\ ~response.blank => result = Returned("stream", response, {})
           /\ response.blank => result = Apology

C24_Witness ==
    /\ PlanCall
    /\ pc = "done"
    /\ Len(calls) = 2
    /\ calls[2].stage = "stream"
    /\ calls[2].outcome = "end"
    /\ Len(received) = 2
    /\ received[1].blank
    /\ ~received[2].blank
    /\ result = Returned("stream", Joined(received), {})

\* --------------------------------------- requests served on one event loop
\* every endpoint is an `async def` run by the one event loop of uvicorn: a
\* request runs without interruption from one await to the next, and another
\* request can run only while it is suspended at an await
Tasks == 1..MaxTasks

NoTask == [op |-> "none", pc |-> "idle", chunks |-> 0, saw_partial |-> FALSE]

\* mutant: the add and the save are awaited (run off the event loop)
AwaitPoints_AddAwaited == {"read", "adding", "saving"}

\* the positions at which a handler awaits: `await file.read()` of the upload
AwaitPoints == {"read"}

\* task t is between two awaits: it has the event loop
Holds(t) == tasks[t].pc \notin AwaitPoints \cup {"idle", "done"}

\* the event loop can start or resume task t
CanRun(t) == \A u \in Tasks \ {t} : ~Holds(u)

InAdd(t) == tasks[t].pc = "adding"
InSave(t) == tasks[t].pc = "saving"

ServeInit ==
    /\ phase = "serving"
    /\ persisted \in {None} \cup 0..1
    /\ docstore = persisted
    /\ vectorstore = persisted
    /\ rag_system = "instance"
    /\ singleton = GetInstance(NoSingleton, MainProcessor)
    /\ callers = <<>>
    /\ tasks = [t \in Tasks |-> NoTask]
    /\ boot = NoBoot
    /\ op = "none"
    /\ pc = "idle"
    /\ req = NoReq
    /\ has_vectorstore = FALSE
    /\ prompt = NoPrompt
    /\ full_response = EmptyStr
    /\ response = EmptyStr
    /\ nchunks = 0
    /\ received = <<>>
    /\ calls = <<>>
    /\ result = NoResult
    /\ payload = NoPayload
    /\ ingested = FALSE

restOfServe == <<phase, rag_system, op, pc, req, has_vectorstore, prompt,
                 full_response, response, nchunks, received, calls, result,
                 payload, ingested, singleton, callers, boot>>

diskVars == <<persisted, docstore>>

\* a request arrives and runs up to its first await (upload: the file loop)
Arrive(t) ==
    /\ tasks[t].pc = "idle"
    /\ CanRun(t)
    /\ \E o \in {"upload_files", "ingest_documents", "query_documents"} :
         tasks' = [tasks EXCEPT ![t] =
                      [NoTask EXCEPT !.op = o,
                                     !.pc = IF o = "upload_files" THEN "read"
                                            ELSE IF o = "ingest_documents"
                                            THEN "loading"
                                            ELSE "querying"]]
    /\ UNCHANGED <<vectorstore, persisted, docstore>>
    /\ UNCHANGED restOfServe

\* upload_files resumed after `await file.read()`: validation and
\* process_documents give n chunks, none answers 400
UploadRead(t) ==
    /\ tasks[t].pc = "read"
    /\ CanRun(t)
    /\ \E n \in 0..MaxEntries :
         /\ Entries(vectorstore) + n <= MaxEntries
         /\ tasks' = [tasks EXCEPT ![t].chunks = n,
                                   ![t].pc = IF n = 0 THEN "done"
                                             ELSE "adding"]
    /\ UNCHANGED <<vectorstore, persisted, docstore>>
    /\ UNCHANGED restOfServe

\* ingest_documents: load_or_create_vector_store up to create_vector_store
IngestLoad(t) ==
    /\ tasks[t].pc = "loading"
    /\ \E n \in 0..MaxEntries :
         IF Loadable
         THEN /\ vectorstore' = persisted
              /\ tasks' = [tasks EXCEPT ![t].pc = "done"]
         ELSE /\ UNCHANGED vectorstore
              /\ tasks' = [tasks EXCEPT ![t].chunks = n,
                                        ![t].pc = IF n = 0 THEN "done"
                                                  ELSE "adding"]
    /\ UNCHANGED diskVars
    /\ UNCHANGED restOfServe

\* add_documents / create_vector_store returns: the entries are in the index,
\* or the embedding failed and nothing is
EndAdd(t) ==
    /\ InAdd(t)
    /\ \E embed_ok \in BOOLEAN :
         IF embed_ok
         THEN /\ vectorstore' = IF tasks[t].op = "upload_files"
                                THEN Entries(vectorstore) + tasks[t].chunks
                                ELSE tasks[t].chunks
              /\ tasks' = [tasks EXCEPT ![t].pc = "saving"]
         ELSE /\ UNCHANGED vectorstore
              /\ tasks' = [tasks EXCEPT ![t].pc = "done"]
    /\ UNCHANGED diskVars
    /\ UNCHANGED restOfServe

\* save_local returns or raises
EndSave(t) ==
    /\ InSave(t)
    /\ \E save \in SaveOutcomes :
         LET w == SaveLocal(persisted, docstore, vectorstore, save)
         IN  /\ persisted' = w.persisted
             /\ docstore' = w.docstore
    /\ tasks' = [tasks EXCEPT ![t].pc = "done"]
    /\ UNCHANGED vectorstore
    /\ UNCHANGED restOfServe

\* query_documents: it reads the index only past its hasattr guard
QueryRun(t) ==
    /\ tasks[t].pc = "querying"
    /\ tasks' = [tasks EXCEPT
                    ![t].pc = "done",
                    ![t].saw_partial = /\ HasAttr(rag_system, "vectorstore")
                                       /\ \E u \in Tasks : InAdd(u)]
    /\ UNCHANGED <<vectorstore, persisted, docstore>>
    /\ UNCHANGED restOfServe

\* the response is sent; the connection serves its next request
SendResponse(t) ==
    /\ tasks[t].pc = "done"
    /\ tasks' = [tasks EXCEPT ![t] = NoTask]
    /\ UNCHANGED <<vectorstore, persisted, docstore>>
    /\ UNCHANGED restOfServe

ServeNext ==
    \E t \in Tasks :
        \/ Arrive(t)
        \/ UploadRead(t)
        \/ IngestLoad(t)
        \/ EndAdd(t)
        \/ EndSave(t)
        \/ QueryRun(t)
        \/ SendResponse(t)

ServeSpec == ServeInit /\ [][ServeNext]_vars

\* C21: whatever the interleaving of concurrently served upload, ingest and
\* query requests, no add to the index overlaps with another add or with a
\* save, and no query observes an index holding only part of an add.
C21_AddsAndSavesDoNotOverlap ==
    /\ \A t \in DOMAIN tasks : \A u \in DOMAIN tasks \ {t} :
          ~(InAdd(t) /\ (InAdd(u) \/ InSave(u)))
    /\ \A t \in DOMAIN tasks : ~tasks[t].saw_partial

C21_Witness ==
    \E t \in DOMAIN tasks : \E u \in DOMAIN tasks \ {t} :
        /\ InAdd(t)
        /\ tasks[t].op = "upload_files"
        /\ tasks[u].op = "upload_files"
        /\ tasks[u].pc = "read"

====
